---- MODULE Spec2Model ----
(***************************************************************************)
(* Model of the Agent402 frontend's data-fetch pipeline:                   *)
(* LeaderboardPage (src/frontend/src/app/leaderboard/page.tsx) and Home    *)
(* (src/frontend/src/app/page.tsx).  A behaviour mounts one of the two.    *)
(*                                                                         *)
(* The component's React state (agents, stats, loading, category, chain,   *)
(* error) are the variables.  Every callback the event loop runs is one    *)
(* action: the mount effects, a filter button's onClick together with the  *)
(* effect its re-render triggers, and the reactions of each fetch promise  *)
(* chain.  A chain of promise reactions that resolve synchronously runs in *)
(* one microtask checkpoint and is therefore one action; the chain is cut  *)
(* only where it awaits I/O: at fetch() and at r.json().                   *)
(***************************************************************************)
EXTENDS Integers, Sequences, FiniteSets, TLC

VARIABLES
    mounted,      \* the component has been mounted and its effects have run
    agents,       \* useState<TrustedAgent[]>([])
    stats,        \* useState<NetworkStats | null>(null)
    loading,      \* useState(true)
    category,     \* useState("")
    chain,        \* useState("")
    error,        \* useState("")
    reqs,         \* the listing requests issued so far, in issue order
    statsReq,     \* the network-stats request: its pc, outcome and body
    statsIssued,  \* the number of network-stats requests issued
    activeResult, \* what the most recently issued listing request delivered
    lastEvent,    \* the callback that ran last, and the listing before it ran
    homeMounted,  \* Home has been mounted and its effect has run
    homeStats,    \* Home: useState<NetworkStats | null>(null)
    payments,     \* Home: useState<PaymentStats | null>(null)
    homeReq,      \* Home: the network-stats and the payment-stats request
    homeIssued,   \* Home: the number of requests issued to each endpoint
    dstats,       \* derivation: the NetworkStats value handed to a render
    out,          \* derivation: what the render produced from dstats
    scoreRows,    \* score bars: the TrustedAgent rows handed to the table
    scoreBars,    \* score bars: the ScoreBar rendered for each row
    unhandled     \* promise chains that ended in a rejection nobody handles

homeVars == <<homeMounted, homeStats, payments, homeReq, homeIssued>>

deriveVars == <<dstats, out, scoreRows, scoreBars>>

vars == <<mounted, agents, stats, loading, category, chain, error,
          reqs, statsReq, statsIssued, activeResult, lastEvent, homeVars,
          deriveVars, unhandled>>

----------------------------------------------------------------------------
(* Bounds of the model *)

\* listing requests issued in one behaviour
MaxReq == 2
\* how many entries of CHAINS the user clicks on
NumChains == 2
\* how many entries of CATEGORIES the user clicks on
NumCategories == 2
\* the largest total_agents of a rendered NetworkStats
MaxTotal == 5
\* the largest count in a distribution map of a rendered NetworkStats
MaxCount == 3
\* the largest number of keys in a rendered tier_distribution
MaxKeys == 2
\* the largest composite_score of a rendered row
MaxScore == 101

----------------------------------------------------------------------------
(* Program constants *)

CHAINS == <<"", "avalanche", "ethereum", "base", "polygon">>

CATEGORIES == <<"", "defi", "gaming", "rwa", "payments", "data", "general">>

\* line 89 (the dash is U+2014 in the source)
PaidMsg == "Paid endpoint - use x402 SDK"

FailedMsg == "Failed to load"

\* the chain buttons the model clicks: "All Chains" and the last ones
ChainSlugs ==
    {CHAINS[1]} \cup
    { CHAINS[i] : i \in (Len(CHAINS) - NumChains + 2)..Len(CHAINS) }

\* the category buttons the model clicks: the first ones
CategorySlugs == { CATEGORIES[i] : i \in 1..NumCategories }

----------------------------------------------------------------------------
(* JSON values a response body can parse to *)

Arr(items) == [tag |-> "array", items |-> items]

Obj == [tag |-> "object", items |-> <<>>]

None == [tag |-> "none", items |-> <<>>]

IsArrayMutant(data) == TRUE

\* line 95: Array.isArray
IsArray(data) == data.tag = "array"

\* two TrustedAgent rows; a2 has the lower id and the lower score
a1 == [agent_id |-> 7, composite_score |-> 90]

a2 == [agent_id |-> 3, composite_score |-> 40]

\* the bodies the server may return with an ok status
Bodies == { Arr(<<>>), Arr(<<a1>>), Arr(<<a2, a1>>), Obj }

\* the response statuses the server may return
Statuses == {200, 402, 500}

ResponseOk(status) == status \in 200..299

\* a value that is null or an object: <<>> is null, <<v>> is the object v
Null == <<>>

Some(v) == <<v>>

\* a JSON object is an ordered list of <<key, value>> pairs
\* two NetworkStats bodies; avg_score is kept in tenths (avg10)
S1 == [total_agents |-> 5, avg10 |-> 723, total_feedback |-> 40,
       tier_distribution |-> <<<<"silver", 3>>, <<"gold", 2>>>>,
       chain_distribution |-> <<<<"base", 4>>, <<"polygon", 0>>>>,
       category_counts |-> <<<<"defi", 2>>, <<"gaming", 0>>>>,
       protocol_counts |-> <<<<"https", 2>>>>]

S2 == [total_agents |-> 0, avg10 |-> 0, total_feedback |-> 0,
       tier_distribution |-> <<>>,
       chain_distribution |-> <<>>,
       category_counts |-> <<>>,
       protocol_counts |-> <<>>]

\* the bodies the server may return for /api/v1/network/stats
StatsBodies == {S1, S2}

\* the bodies the server may return for /api/v1/payments/stats
PaymentBodies == {[total_payments |-> 0], [total_payments |-> 12]}

\* a request that has not been issued
NoReq == [pc |-> "none", outcome |-> "none", body |-> Null]

InFlight == [pc |-> "inflight", outcome |-> "none", body |-> Null]

Parsing == [pc |-> "parsing", outcome |-> "none", body |-> Null]

Settled(outcome, body) == [pc |-> "done", outcome |-> outcome, body |-> body]

----------------------------------------------------------------------------
(* URLSearchParams: an ordered list of <<name, value>> pairs *)

ParamsHas(params, name) == \E i \in 1..Len(params) : params[i][1] = name

ParamsGet(params, name) ==
    LET i == CHOOSE j \in 1..Len(params) :
                 /\ params[j][1] = name
                 /\ \A k \in 1..(j-1) : params[k][1] # name
    IN  params[i][2]

\* URLSearchParams.set: overwrite the value of the name, or append the pair
ParamsSet(params, name, value) ==
    IF ParamsHas(params, name)
    THEN [i \in 1..Len(params) |->
             IF params[i][1] = name THEN <<name, value>> ELSE params[i]]
    ELSE Append(params, <<name, value>>)

\* a JavaScript string is truthy iff it is not empty
Truthy(s) == s # ""

BuildParamsMutant(cat, ch) ==
    ParamsSet(ParamsSet(<<<<"limit", "50">>>>, "category", cat), "chain", ch)

\* lines 82-84: the query of the listing request
BuildParams(cat, ch) ==
    LET p0 == <<<<"limit", "50">>>>
        p1 == IF Truthy(cat) THEN ParamsSet(p0, "category", cat) ELSE p0
        p2 == IF Truthy(ch) THEN ParamsSet(p1, "chain", ch) ELSE p1
    IN  p2

----------------------------------------------------------------------------
(* The reactions of the listing promise chain *)

Then1ErrorMutant(status, err) == IF status = 402 THEN FailedMsg ELSE err

\* lines 88-89: the first reaction's effect on the error state
Then1Error(status, err) == IF status = 402 THEN PaidMsg ELSE err

\* lines 88-92: the value the first reaction returns without awaiting;
\* for an ok response it returns the promise of r.json() instead
Then1Value(status) == Arr(<<>>)

Then2AgentsMutant(data, old) ==
    IF IsArray(data) THEN Arr(old.items \o data.items) ELSE old

\* lines 94-96: the second reaction's effect on the listing
Then2Agents(data, old) == IF IsArray(data) THEN data ELSE old

\* line 97: the rejection handler's effect on the error state
CatchError(err) == FailedMsg

FinallyLoadingMutant(l) == l

\* line 98: the finally handler's effect on loading
FinallyLoading(l) == FALSE

----------------------------------------------------------------------------
(* The promises of a chain; no handler of either page throws *)

\* then(onFulfilled): a rejection passes through, a fulfilment runs the
\* handler and fulfils
Then(p) == p

\* catch(onRejected): the handler runs on a rejection and returns, so the
\* promise is fulfilled either way
Catch(p) == "fulfilled"

\* finally(onFinally): the handler runs and the promise settles as p did
Finally(p) == p

ListingChainMutant(p) == Finally(Then(p))

\* lines 93-98: the last promise of the listing chain, given how the promise
\* of the first reaction settled (a rejection of fetch() passes through it,
\* a rejection of r.json() is adopted by it)
ListingChain(p) == Finally(Catch(Then(p)))

\* leaderboard lines 76-77, Home lines 97-98 and 101-102: the last promise
\* of a stats chain
StatsChain(p) == Catch(Then(p))

\* a chain whose last promise is rejected raises unhandledrejection
Unhandled(p) == IF p = "rejected" THEN 1 ELSE 0

----------------------------------------------------------------------------
(* The reactions of a stats promise chain, the same in both views *)

\* leaderboard line 75, Home lines 96 and 100: what a response that is not
\* ok hands to the setter
StatsNotOkValue == Null

\* leaderboard line 76, Home lines 97 and 101: then(setStats)
SetStats(value, old) == value

StatsCatchErrorMutant(err) == FailedMsg

\* leaderboard line 77: the rejection handler is empty
StatsCatchError(err) == err

StatsDepsMutant(cat, ch) == <<cat, ch>>

\* leaderboard line 78: the dependency list of the stats effect
StatsDeps(cat, ch) == <<>>

ListingDepsMutant(cat, ch) == <<cat>>

\* leaderboard line 99: the dependency list of the listing effect
ListingDeps(cat, ch) == <<cat, ch>>

----------------------------------------------------------------------------
(* Rendering *)

\* line 210: the error banner is rendered
ErrorBanner == Truthy(error)

\* lines 231-294: the rows of the table body; the row of the element at
\* JavaScript index i - 1 shows (i - 1) + 1 in its first cell
TableRows(l, list) ==
    IF l THEN <<[kind |-> "loading", rank |-> 0, agent_id |-> 0]>>
    ELSE IF Len(list.items) = 0
         THEN <<[kind |-> "empty", rank |-> 0, agent_id |-> 0]>>
         ELSE [i \in 1..Len(list.items) |->
                  [kind |-> "agent", rank |-> (i - 1) + 1,
                   agent_id |-> list.items[i].agent_id]]

ScoreBarMutant(score) ==
    [color |-> IF score > 80 THEN "bg-success"
               ELSE IF score > 60 THEN "bg-primary"
               ELSE IF score > 40 THEN "bg-warning" ELSE "bg-danger",
     width |-> IF 100 < score THEN 100 ELSE score]

\* lines 45-63: the colour class and the width (in percent) of a score bar
ScoreBar(score) ==
    [color |-> IF score >= 80 THEN "bg-success"
               ELSE IF score >= 60 THEN "bg-primary"
               ELSE IF score >= 40 THEN "bg-warning" ELSE "bg-danger",
     width |-> IF 100 < score THEN 100 ELSE score]

\* lines 248-276: the ScoreBar of each row, in row order
ScoreBars(list) ==
    [i \in 1..Len(list) |-> ScoreBar(list[i].composite_score)]

\* Number.prototype.toLocaleString for a count below a million (en-US)
ToLocaleString(n) ==
    IF n < 1000 THEN ToString(n)
    ELSE ToString(n \div 1000) \o "," \o
         (IF n % 1000 < 10 THEN "00" ELSE IF n % 1000 < 100 THEN "0" ELSE "")
         \o ToString(n % 1000)

\* Number.prototype.toFixed(1) of a score given in tenths
ToFixed1(tenths) == ToString(tenths \div 10) \o "." \o ToString(tenths % 10)

\* the placeholder of page.tsx lines 142-152 (U+2014 in the source)
Dash == "--"

\* page.tsx lines 139-160: the values of the four summary cards
StatCards(st, pay) ==
    << IF st # Null THEN ToLocaleString(st[1].total_agents) ELSE Dash,
       IF st # Null THEN ToFixed1(st[1].avg10) ELSE Dash,
       IF st # Null THEN ToLocaleString(st[1].total_feedback) ELSE Dash,
       IF pay # Null THEN ToLocaleString(pay[1].total_payments) ELSE "0" >>

----------------------------------------------------------------------------
(* Derivations from NetworkStats.  A distribution map is a JSON object: an *)
(* ordered list of <<key, count>> pairs with distinct keys.  A percentage  *)
(* is the exact rational <<numerator, denominator>>; a zero denominator    *)
(* stands for the NaN or Infinity a division by zero gives.                *)

Tiers == {"diamond", "platinum", "gold", "silver", "bronze", "unranked"}

\* TIER_ORDER of @/lib/constants (imported at leaderboard line 6)
TIER_ORDER == <<"diamond", "platinum", "gold", "silver", "bronze", "unranked">>

\* page.tsx line 209: the tiers the bar maps over
HomeBarOrder == <<"diamond", "platinum", "gold", "silver", "bronze", "unranked">>

\* page.tsx line 228: the tiers the legend maps over
HomeLegendOrder == <<"diamond", "platinum", "gold", "silver", "bronze", "unranked">>

\* page.tsx lines 170-173: the protocol cards
PROTOCOLS == <<"https", "x402", "8004", "a2a">>

\* page.tsx lines 256-259: the chain cards
HOME_CHAINS == <<"avalanche", "ethereum", "base", "polygon">>

MapHas(m, key) == \E i \in 1..Len(m) : m[i][1] = key

MapGet(m, key) == m[CHOOSE i \in 1..Len(m) : m[i][1] = key][2]

\* m[key] || 0
CountOr0(m, key) == IF MapHas(m, key) THEN MapGet(m, key) ELSE 0

\* Object.keys(m)
Keys(m) == [i \in 1..Len(m) |-> m[i][1]]

IsZero(r) == r[2] # 0 /\ r[1] = 0

PctMutant(count, total) == <<count * 100, total>>

\* leaderboard line 121, page.tsx line 211:
\* total > 0 ? (count / total) * 100 : 0
Pct(count, total) == IF total > 0 THEN <<count * 100, total>> ELSE <<0, 1>>

\* page.tsx lines 176, 262: total > 0 ? ((count / total) * 100).toFixed(1)
\* : "0", as the number the string denotes; toFixed(1) rounds to the nearest
\* tenth, the larger one on a tie
PctFixed1(count, total) ==
    IF total > 0
    THEN <<(2000 * count + total) \div (2 * total), 10>>
    ELSE <<0, 1>>

\* Math.min(100, r)
Min100(r) == IF r[1] <= 100 * r[2] THEN r ELSE <<100, 1>>

\* leaderboard lines 119-121, page.tsx lines 209-211: count and pct of
\* each tier of the order mapped over
TierEntries(order, s) ==
    [i \in 1..Len(order) |->
        [tier |-> order[i],
         count |-> CountOr0(s.tier_distribution, order[i]),
         pct |-> Pct(CountOr0(s.tier_distribution, order[i]), s.total_agents)]]

\* leaderboard lines 122-134, page.tsx lines 212-224: the segments
Segments(entries) ==
    LET kept == SelectSeq(entries, LAMBDA e : ~IsZero(e.pct))
    IN  [i \in 1..Len(kept) |->
            [tier |-> kept[i].tier, count |-> kept[i].count,
             width |-> kept[i].pct]]

\* leaderboard lines 139-151, page.tsx lines 229-241: the legend entries
Legend(entries) ==
    LET kept == SelectSeq(entries, LAMBDA e : e.count # 0)
    IN  [i \in 1..Len(kept) |->
            [tier |-> kept[i].tier, count |-> kept[i].count]]

\* leaderboard line 116, page.tsx line 202: the tier section is rendered
TierSection(st) == st # Null /\ Len(Keys(st[1].tier_distribution)) > 0

LbTierBarMutant(st) ==
    IF TierSection(st)
    THEN LET e == TierEntries(TIER_ORDER, st[1])
         IN  [i \in 1..Len(e) |-> [tier |-> e[i].tier, count |-> e[i].count,
                                   width |-> e[i].pct]]
    ELSE <<>>

\* leaderboard lines 116-136
LbTierBar(st) ==
    IF TierSection(st) THEN Segments(TierEntries(TIER_ORDER, st[1])) ELSE <<>>

\* leaderboard lines 137-153
LbTierLegend(st) ==
    IF TierSection(st) THEN Legend(TierEntries(TIER_ORDER, st[1])) ELSE <<>>

HomeTierBarMutant(st) ==
    IF TierSection(st)
    THEN Segments(TierEntries(Keys(st[1].tier_distribution), st[1]))
    ELSE <<>>

\* page.tsx lines 202-226
HomeTierBar(st) ==
    IF TierSection(st) THEN Segments(TierEntries(HomeBarOrder, st[1])) ELSE <<>>

\* page.tsx lines 227-243
HomeTierLegend(st) ==
    IF TierSection(st) THEN Legend(TierEntries(HomeLegendOrder, st[1])) ELSE <<>>

\* leaderboard lines 160-180 and 186-206: the count badges of the filter
\* buttons; m is the distribution map, <<>> when stats is null
Badges(slugs, m) ==
    LET all == [i \in 1..Len(slugs) |->
                   [key |-> slugs[i], count |-> CountOr0(m, slugs[i])]]
    IN  SelectSeq(all, LAMBDA b : Truthy(b.key) /\ b.count > 0)

LbChainBadges(st) ==
    Badges(CHAINS, IF st = Null THEN <<>> ELSE st[1].chain_distribution)

LbCategoryBadges(st) ==
    Badges(CATEGORIES, IF st = Null THEN <<>> ELSE st[1].category_counts)

\* page.tsx lines 174-196 and 260-278: one card per key, with its count,
\* its percentage and the width of its bar
CoverageCards(keys, m, total) ==
    [i \in 1..Len(keys) |->
        [key |-> keys[i],
         count |-> CountOr0(m, keys[i]),
         pct |-> PctFixed1(CountOr0(m, keys[i]), total),
         width |-> Min100(PctFixed1(CountOr0(m, keys[i]), total))]]

\* page.tsx lines 163-199
HomeProtocolCards(st) ==
    IF st # Null /\ Len(Keys(st[1].protocol_counts)) > 0
    THEN CoverageCards(PROTOCOLS, st[1].protocol_counts, st[1].total_agents)
    ELSE <<>>

\* page.tsx lines 249-281
HomeChainCards(st) ==
    IF st # Null /\ Len(Keys(st[1].chain_distribution)) > 0
    THEN CoverageCards(HOME_CHAINS, st[1].chain_distribution,
                       st[1].total_agents)
    ELSE <<>>

\* what the two views render from the NetworkStats state st
RenderStats(st) ==
    [lbEntries |-> IF TierSection(st) THEN TierEntries(TIER_ORDER, st[1])
                                      ELSE <<>>,
     lbBar |-> LbTierBar(st),
     lbLegend |-> LbTierLegend(st),
     lbChainBadges |-> LbChainBadges(st),
     lbCategoryBadges |-> LbCategoryBadges(st),
     homeEntries |-> IF TierSection(st) THEN TierEntries(HomeBarOrder, st[1])
                                        ELSE <<>>,
     homeBar |-> HomeTierBar(st),
     homeLegend |-> HomeTierLegend(st),
     homeProtocol |-> HomeProtocolCards(st),
     homeChain |-> HomeChainCards(st)]

\* the tier_distribution maps rendered: at most MaxKeys distinct tiers
TierMaps ==
    UNION { { m \in [1..k -> Tiers \X (0..MaxCount)] :
                \A i, j \in 1..k : m[i][1] = m[j][1] => i = j }
            : k \in 0..MaxKeys }

\* chain, category and protocol maps with one count c and one zero count
SideMap(c) ==
    [chain |-> <<<<"polygon", 0>>, <<"base", c>>>>,
     category |-> <<<<"gaming", 0>>, <<"defi", c>>>>,
     protocol |-> <<<<"a2a", 0>>, <<"x402", c>>>>]

\* the chain, category and protocol maps rendered, chosen together
SideMaps ==
    { [chain |-> <<>>, category |-> <<>>, protocol |-> <<>>] } \cup
    { SideMap(c) : c \in 0..MaxCount }

NetworkStats(t, tm, sm) ==
    Some([total_agents |-> t, avg10 |-> 0, total_feedback |-> 0,
          tier_distribution |-> tm,
          chain_distribution |-> sm.chain,
          category_counts |-> sm.category,
          protocol_counts |-> sm.protocol])

\* the NetworkStats values rendered, and null: every tier map with the
\* largest side maps, and every side map with the empty tier map
DeriveInputs ==
    { Null }
    \cup { NetworkStats(t, tm, SideMap(MaxCount))
           : t \in 0..MaxTotal, tm \in TierMaps }
    \cup { NetworkStats(t, <<>>, sm)
           : t \in 0..MaxTotal, sm \in SideMaps }

----------------------------------------------------------------------------
(* State *)

\* kind and id name the callback and its request; before and issued are the
\* listing and the number of requests issued when the callback started
Event(kind, id, data) ==
    [kind |-> kind, id |-> id, before |-> agents, issued |-> Len(reqs),
     data |-> data]

InitViews ==
    /\ mounted = FALSE
    /\ agents = Arr(<<>>)
    /\ stats = Null
    /\ loading = TRUE
    /\ category = ""
    /\ chain = ""
    /\ error = ""
    /\ reqs = <<>>
    /\ statsReq = NoReq
    /\ statsIssued = 0
    /\ activeResult = None
    /\ lastEvent = [kind |-> "init", id |-> 0, before |-> Arr(<<>>), issued |-> 0,
                    data |-> None]
    /\ homeMounted = FALSE
    /\ homeStats = Null
    /\ payments = Null
    /\ homeReq = [stats |-> NoReq, payments |-> NoReq]
    /\ homeIssued = [stats |-> 0, payments |-> 0]
    /\ unhandled = 0

Init ==
    /\ InitViews
    /\ dstats = Null
    /\ out = <<>>
    /\ scoreRows = <<>>
    /\ scoreBars = <<>>

\* lines 80-99: the listing effect, up to the point where fetch() is issued
ListingEffect(cat, ch) ==
    /\ loading' = TRUE
    /\ reqs' = Append(reqs, [category |-> cat, chain |-> ch,
                             query |-> BuildParams(cat, ch), pc |-> "inflight"])
    /\ activeResult' = None
    /\ lastEvent' = Event("issue", Len(reqs) + 1, None)

\* lines 73-74: the stats effect, up to the point where fetch() is issued
StatsEffect ==
    /\ statsReq' = InFlight
    /\ statsIssued' = statsIssued + 1

ActivateMutant ==
    /\ ~mounted
    /\ ~homeMounted
    /\ mounted' = TRUE
    /\ StatsEffect
    /\ UNCHANGED <<agents, stats, loading, category, chain, error, reqs,
                   activeResult, lastEvent, homeVars, deriveVars, unhandled>>

\* mount: both effects run (lines 73-78 and 80-99)
Activate ==
    /\ ~mounted
    /\ ~homeMounted
    /\ mounted' = TRUE
    /\ StatsEffect
    /\ ListingEffect(category, chain)
    /\ UNCHANGED <<agents, stats, category, chain, error, homeVars, deriveVars, unhandled>>

\* the render after a state change to the selection (cat, ch): React runs
\* each effect whose dependency list changed
Rerender(cat, ch) ==
    /\ IF ListingDeps(cat, ch) # ListingDeps(category, chain)
       THEN /\ Len(reqs) < MaxReq
            /\ ListingEffect(cat, ch)
       ELSE /\ lastEvent' = Event("noop", 0, None)
            /\ UNCHANGED <<loading, reqs, activeResult>>
    /\ IF StatsDeps(cat, ch) # StatsDeps(category, chain)
       THEN StatsEffect
       ELSE UNCHANGED <<statsReq, statsIssued>>

SelectChainMutant(slug) ==
    /\ mounted
    /\ chain' = slug
    /\ Len(reqs) < MaxReq
    /\ ListingEffect(category, slug)
    /\ UNCHANGED <<mounted, agents, stats, category, error, statsReq,
                   statsIssued, homeVars, deriveVars, unhandled>>

\* line 165: onClick of a chain button, and the effects of the re-render
SelectChain(slug) ==
    /\ mounted
    /\ chain' = slug
    /\ Rerender(category, slug)
    /\ UNCHANGED <<mounted, agents, stats, category, error, homeVars, deriveVars, unhandled>>

SelectCategoryMutant(slug) ==
    /\ mounted
    /\ category' = slug
    /\ chain' = slug
    /\ Rerender(slug, slug)
    /\ UNCHANGED <<mounted, agents, stats, error, homeVars, deriveVars, unhandled>>

\* line 191: onClick of a category button, and the effects of the re-render
SelectCategory(slug) ==
    /\ mounted
    /\ category' = slug
    /\ Rerender(slug, chain)
    /\ UNCHANGED <<mounted, agents, stats, chain, error, homeVars, deriveVars, unhandled>>

SetPc(i, pc) == [reqs EXCEPT ![i].pc = pc]

Delivered(i, data) == IF i = Len(reqs) THEN data ELSE activeResult

\* lines 87-98: fetch() resolves with a response that is not ok; the chain
\* runs to its end
FetchResolveNotOk(i, status) ==
    /\ i \in 1..Len(reqs)
    /\ reqs[i].pc = "inflight"
    /\ ~ResponseOk(status)
    /\ error' = Then1Error(status, error)
    /\ agents' = Then2Agents(Then1Value(status), agents)
    /\ loading' = FinallyLoading(loading)
    /\ reqs' = SetPc(i, "done")
    /\ activeResult' = Delivered(i, Then1Value(status))
    /\ lastEvent' = Event(IF status = 402 THEN "402" ELSE "nonok", i, Then1Value(status))
    /\ unhandled' = unhandled + Unhandled(ListingChain("fulfilled"))
    /\ UNCHANGED <<mounted, stats, category, chain, statsReq,
                   statsIssued, homeVars, deriveVars>>

\* lines 87-92: fetch() resolves with an ok response; the chain awaits r.json()
FetchResolveOk(i, status) ==
    /\ i \in 1..Len(reqs)
    /\ reqs[i].pc = "inflight"
    /\ ResponseOk(status)
    /\ error' = Then1Error(status, error)
    /\ reqs' = SetPc(i, "parsing")
    /\ UNCHANGED <<mounted, agents, stats, loading, category, chain,
                   statsReq, statsIssued, activeResult, lastEvent, homeVars, deriveVars, unhandled>>

\* lines 97-98: fetch() rejects (network failure)
FetchReject(i) ==
    /\ i \in 1..Len(reqs)
    /\ reqs[i].pc = "inflight"
    /\ error' = CatchError(error)
    /\ loading' = FinallyLoading(loading)
    /\ reqs' = SetPc(i, "done")
    /\ activeResult' = Delivered(i, None)
    /\ lastEvent' = Event("reject", i, None)
    /\ unhandled' = unhandled + Unhandled(ListingChain("rejected"))
    /\ UNCHANGED <<mounted, agents, stats, category, chain, statsReq,
                   statsIssued, homeVars, deriveVars>>

\* lines 94-98: r.json() resolves with the parsed body
JsonResolve(i, body) ==
    /\ i \in 1..Len(reqs)
    /\ reqs[i].pc = "parsing"
    /\ agents' = Then2Agents(body, agents)
    /\ loading' = FinallyLoading(loading)
    /\ reqs' = SetPc(i, "done")
    /\ activeResult' = Delivered(i, body)
    /\ lastEvent' = Event("ok", i, body)
    /\ unhandled' = unhandled + Unhandled(ListingChain("fulfilled"))
    /\ UNCHANGED <<mounted, stats, category, chain, error, statsReq,
                   statsIssued, homeVars, deriveVars>>

\* lines 97-98: r.json() rejects (the body is not JSON)
JsonReject(i) ==
    /\ i \in 1..Len(reqs)
    /\ reqs[i].pc = "parsing"
    /\ error' = CatchError(error)
    /\ loading' = FinallyLoading(loading)
    /\ reqs' = SetPc(i, "done")
    /\ activeResult' = Delivered(i, None)
    /\ lastEvent' = Event("parsefail", i, None)
    /\ unhandled' = unhandled + Unhandled(ListingChain("rejected"))
    /\ UNCHANGED <<mounted, agents, stats, category, chain, statsReq,
                   statsIssued, homeVars, deriveVars>>

\* lines 74-75: the stats fetch resolves with an ok response; the chain
\* awaits r.json()
StatsResolveOk ==
    /\ statsReq.pc = "inflight"
    /\ statsReq' = Parsing
    /\ UNCHANGED <<mounted, agents, stats, loading, category, chain, error,
                   reqs, statsIssued, activeResult, lastEvent, homeVars, deriveVars, unhandled>>

\* lines 75-76: the stats fetch resolves with a response that is not ok
StatsResolveNotOk ==
    /\ statsReq.pc = "inflight"
    /\ statsReq' = Settled("nonok", Null)
    /\ stats' = SetStats(StatsNotOkValue, stats)
    /\ unhandled' = unhandled + Unhandled(StatsChain("fulfilled"))
    /\ UNCHANGED <<mounted, agents, loading, category, chain, error,
                   reqs, statsIssued, activeResult, lastEvent, homeVars, deriveVars>>

\* line 76: r.json() resolves with the parsed body
StatsJsonResolve(body) ==
    /\ statsReq.pc = "parsing"
    /\ statsReq' = Settled("ok", Some(body))
    /\ stats' = SetStats(Some(body), stats)
    /\ unhandled' = unhandled + Unhandled(StatsChain("fulfilled"))
    /\ UNCHANGED <<mounted, agents, loading, category, chain, error,
                   reqs, statsIssued, activeResult, lastEvent, homeVars, deriveVars>>

\* line 77: fetch() or r.json() rejects
StatsReject ==
    /\ statsReq.pc \in {"inflight", "parsing"}
    /\ statsReq' = Settled(IF statsReq.pc = "inflight" THEN "reject"
                                                       ELSE "parsefail", Null)
    /\ error' = StatsCatchError(error)
    /\ unhandled' = unhandled + Unhandled(StatsChain("rejected"))
    /\ UNCHANGED <<mounted, agents, stats, loading, category, chain,
                   reqs, statsIssued, activeResult, lastEvent, homeVars, deriveVars>>

----------------------------------------------------------------------------
(* Home *)

lbVars == <<mounted, agents, stats, loading, category, chain, error,
            reqs, statsReq, statsIssued, activeResult, lastEvent>>

Endpoints == {"stats", "payments"}

\* the state a Home request feeds: stats or payments
HomeSet(which, value) ==
    /\ homeStats' = IF which = "stats" THEN SetStats(value, homeStats)
                                       ELSE homeStats
    /\ payments' = IF which = "payments" THEN SetStats(value, payments)
                                         ELSE payments

\* page.tsx lines 94-103: mount; the effect issues both requests
HomeActivate ==
    /\ ~homeMounted
    /\ ~mounted
    /\ homeMounted' = TRUE
    /\ homeReq' = [stats |-> InFlight, payments |-> InFlight]
    /\ homeIssued' = [stats |-> homeIssued.stats + 1,
                      payments |-> homeIssued.payments + 1]
    /\ UNCHANGED <<homeStats, payments, lbVars, deriveVars, unhandled>>

\* page.tsx lines 96, 100: a fetch resolves with an ok response
HomeResolveOk(which) ==
    /\ homeReq[which].pc = "inflight"
    /\ homeReq' = [homeReq EXCEPT ![which] = Parsing]
    /\ UNCHANGED <<homeMounted, homeStats, payments, homeIssued, lbVars, deriveVars, unhandled>>

\* page.tsx lines 96-97, 100-101: a fetch resolves with a response that is
\* not ok
HomeResolveNotOk(which) ==
    /\ homeReq[which].pc = "inflight"
    /\ homeReq' = [homeReq EXCEPT ![which] = Settled("nonok", Null)]
    /\ HomeSet(which, StatsNotOkValue)
    /\ unhandled' = unhandled + Unhandled(StatsChain("fulfilled"))
    /\ UNCHANGED <<homeMounted, homeIssued, lbVars, deriveVars>>

\* page.tsx lines 97, 101: r.json() resolves with the parsed body
HomeJsonResolve(which, body) ==
    /\ homeReq[which].pc = "parsing"
    /\ homeReq' = [homeReq EXCEPT ![which] = Settled("ok", Some(body))]
    /\ HomeSet(which, Some(body))
    /\ unhandled' = unhandled + Unhandled(StatsChain("fulfilled"))
    /\ UNCHANGED <<homeMounted, homeIssued, lbVars, deriveVars>>

\* page.tsx lines 98, 102: fetch() or r.json() rejects; the handler is empty
HomeReject(which) ==
    /\ homeReq[which].pc \in {"inflight", "parsing"}
    /\ homeReq' = [homeReq EXCEPT ![which] =
                      Settled(IF homeReq[which].pc = "inflight"
                              THEN "reject" ELSE "parsefail", Null)]
    /\ unhandled' = unhandled + Unhandled(StatsChain("rejected"))
    /\ UNCHANGED <<homeMounted, homeStats, payments, homeIssued, lbVars, deriveVars>>

Next ==
    \/ Activate
    \/ \E slug \in ChainSlugs : SelectChain(slug)
    \/ \E slug \in CategorySlugs : SelectCategory(slug)
    \/ \E i \in 1..MaxReq, status \in Statuses : FetchResolveNotOk(i, status)
    \/ \E i \in 1..MaxReq, status \in Statuses : FetchResolveOk(i, status)
    \/ \E i \in 1..MaxReq : FetchReject(i)
    \/ \E i \in 1..MaxReq, body \in Bodies : JsonResolve(i, body)
    \/ \E i \in 1..MaxReq : JsonReject(i)
    \/ StatsResolveOk
    \/ StatsResolveNotOk
    \/ \E body \in StatsBodies : StatsJsonResolve(body)
    \/ StatsReject
    \/ HomeActivate
    \/ \E which \in Endpoints : HomeResolveOk(which)
    \/ \E which \in Endpoints : HomeResolveNotOk(which)
    \/ \E body \in StatsBodies : HomeJsonResolve("stats", body)
    \/ \E body \in PaymentBodies : HomeJsonResolve("payments", body)
    \/ \E which \in Endpoints : HomeReject(which)

Spec == Init /\ [][Next]_vars

\* the steps by which listing request i settles: the network answers, and
\* the body of an ok response is parsed
ListingSettle(i) ==
    \/ \E status \in Statuses : FetchResolveNotOk(i, status)
    \/ \E status \in Statuses : FetchResolveOk(i, status)
    \/ FetchReject(i)
    \/ \E body \in Bodies : JsonResolve(i, body)
    \/ JsonReject(i)

\* the behaviours in which every issued listing request settles: while one
\* is pending a settle step is enabled, so one is eventually taken
SpecLive ==
    Init /\ [][Next]_vars /\ WF_vars(\E i \in 1..MaxReq : ListingSettle(i))

----------------------------------------------------------------------------
(* The derivations on their own: a render of any NetworkStats value *)

InitDerive ==
    /\ InitViews
    /\ dstats \in DeriveInputs
    /\ out = <<>>
    /\ scoreRows = <<>>
    /\ scoreBars = <<>>

\* the render of either view, with dstats as the stats state
Render ==
    /\ out = <<>>
    /\ out' = <<RenderStats(dstats)>>
    /\ UNCHANGED <<dstats, scoreRows, scoreBars, lbVars, homeVars, unhandled>>

NextDerive == Render

SpecDerive == InitDerive /\ [][NextDerive]_vars

----------------------------------------------------------------------------
(* The score bars on their own: a render of any two table rows *)

\* the composite_score values of the rendered rows
Scores == (0 - 1)..MaxScore

\* the listings rendered: two rows, with any two scores
ScoreInputs ==
    { <<[agent_id |-> 7, composite_score |-> x],
        [agent_id |-> 3, composite_score |-> y]>> : x, y \in Scores }

InitScore ==
    /\ InitViews
    /\ dstats = Null
    /\ out = <<>>
    /\ scoreRows \in ScoreInputs
    /\ scoreBars = <<>>

\* lines 248-276: agents.map renders one ScoreBar per row
RenderRows ==
    /\ scoreBars = <<>>
    /\ scoreBars' = <<ScoreBars(scoreRows)>>
    /\ UNCHANGED <<dstats, out, scoreRows, lbVars, homeVars, unhandled>>

NextScore == RenderRows

SpecScore == InitScore /\ [][NextScore]_vars

----------------------------------------------------------------------------
(* Properties *)

AllDone == mounted /\ \A i \in 1..Len(reqs) : reqs[i].pc = "done"

SettleKinds == {"ok", "402", "nonok", "reject", "parsefail"}

\* C1: when a superseded request (for another filter set) settles after the
\* request of the active filter set, and every request has settled, the
\* listing is the array the active request delivered.
C1_StaleResponseDiscarded ==
    ( /\ AllDone
      /\ lastEvent.kind \in SettleKinds
      /\ lastEvent.id < Len(reqs)
      /\ <<reqs[lastEvent.id].category, reqs[lastEvent.id].chain>>
            # <<category, chain>>
      /\ IsArray(activeResult) )
    => agents = activeResult

\* C2: whenever the request issued for the active filter selection has not
\* settled, loading is true.
C2_LoadingWhileActivePending ==
    (mounted /\ reqs[Len(reqs)].pc # "done") => loading

\* C3: a listing fetch that ends in a network failure or in a non-ok, non-402
\* response leaves the generic failure message set and shown, and loading
\* cleared.
C3_FailureSetsFailed ==
    lastEvent.kind \in {"reject", "nonok"}
    => (error = FailedMsg /\ ErrorBanner /\ ~loading)

\* C4: a listing fetch that fails after the listing was populated leaves the
\* listing empty and the failure banner visible.
C4_FailureClearsListing ==
    ( /\ lastEvent.kind \in {"reject", "nonok"}
      /\ Len(lastEvent.before.items) > 0 )
    => (agents = Arr(<<>>) /\ ErrorBanner /\ error = FailedMsg)

\* C5: an ok response whose body is not an array leaves the listing empty
\* and loading cleared.
C5_NonArrayIsEmpty ==
    (lastEvent.kind = "ok" /\ ~IsArray(lastEvent.data))
    => (agents = Arr(<<>>) /\ ~loading)

\* C6: once an ok response with an empty array has settled, the table is
\* exactly one 'No agents found' row and no error banner is displayed.
C6_EmptyResultNoBanner ==
    (lastEvent.kind = "ok" /\ lastEvent.data = Arr(<<>>))
    => ( /\ TableRows(loading, agents)
              = <<[kind |-> "empty", rank |-> 0, agent_id |-> 0]>>
         /\ ~ErrorBanner )

\* C7: the status is one of the listed ones, and at the start of every fetch
\* attempt loading is true and no payment-required or failed message of an
\* earlier attempt remains.
C7_ResetAtFetchStart ==
    /\ loading \in BOOLEAN
    /\ error \in {"", PaidMsg, FailedMsg}
    /\ lastEvent.kind = "issue" => (loading /\ error \notin {PaidMsg, FailedMsg})

\* C8: once a 402 response has settled, the listing is the empty array, the
\* message is the payment-required advisory, loading is cleared and no
\* further request has been issued.
C8_PaymentRequired ==
    lastEvent.kind = "402"
    => ( /\ agents = Arr(<<>>)
         /\ error = PaidMsg
         /\ error # FailedMsg
         /\ ~loading
         /\ Len(reqs) = lastEvent.issued
         /\ reqs[lastEvent.id].pc = "done" )

C8_Witness ==
    /\ lastEvent.kind = "402"
    /\ Len(lastEvent.before.items) > 0
    /\ agents = Arr(<<>>)

\* C9: once an ok response with array A has settled and no other listing
\* request is in flight, the listing is A, and the table shows one row per
\* element of A, in A's order, the row at (1-based) position i with rank i.
C9_ReplaceAndRank ==
    (lastEvent.kind = "ok" /\ IsArray(lastEvent.data) /\ AllDone)
    => LET A == lastEvent.data.items
           rows == TableRows(loading, agents)
           agentRows == SelectSeq(rows, LAMBDA r : r.kind = "agent")
       IN  /\ agents = Arr(A)
           /\ Len(agentRows) = Len(A)
           /\ A # <<>> => rows = agentRows
           /\ \A i \in 1..Len(A) :
                 /\ agentRows[i].agent_id = A[i].agent_id
                 /\ agentRows[i].rank = i

C9_Witness ==
    /\ lastEvent.kind = "ok"
    /\ AllDone
    /\ lastEvent.before = Arr(<<a1>>)
    /\ lastEvent.data = Arr(<<a2, a1>>)
    /\ agents = Arr(<<a2, a1>>)

\* C10: the query of every listing request carries limit=50, carries
\* category=C iff the category is not empty and chain=S iff the chain is not
\* empty, with the slug verbatim (known or not), and no empty-string value.
C10_QueryParams ==
    LET Carries(p, cat, ch) ==
            /\ ParamsHas(p, "limit") /\ ParamsGet(p, "limit") = "50"
            /\ ParamsHas(p, "category") <=> cat # ""
            /\ cat # "" => ParamsGet(p, "category") = cat
            /\ ParamsHas(p, "chain") <=> ch # ""
            /\ ch # "" => ParamsGet(p, "chain") = ch
            /\ \A i \in 1..Len(p) :
                  /\ p[i][2] # ""
                  /\ p[i][1] \in {"limit", "category", "chain"}
                  /\ \A j \in 1..Len(p) : p[j][1] = p[i][1] => j = i
        AnyCategory == CategorySlugs \cup {"nft"}
        AnyChain == ChainSlugs \cup {"solana"}
    IN  /\ \A i \in 1..Len(reqs) :
              Carries(reqs[i].query, reqs[i].category, reqs[i].chain)
        /\ mounted => Carries(reqs[Len(reqs)].query, category, chain)
        /\ \A cat \in AnyCategory, ch \in AnyChain :
              Carries(BuildParams(cat, ch), cat, ch)

C10_Witness ==
    /\ Len(reqs) = 2
    /\ reqs[1].query = <<<<"limit", "50">>>>
    /\ category = "defi"
    /\ chain = ""
    /\ reqs[2].query = <<<<"limit", "50">>, <<"category", "defi">>>>

\* C11: a step that leaves the selection unchanged issues no listing
\* request, and a click on the value that is already active leaves the
\* selection, the listing, loading, error and the requests unchanged.
C11_SelectIdempotent ==
    [][ (mounted /\ category' = category /\ chain' = chain)
        => ( /\ Len(reqs') = Len(reqs)
             /\ ( \/ \E slug \in ChainSlugs :
                        slug = chain /\ SelectChain(slug)
                  \/ \E slug \in CategorySlugs :
                        slug = category /\ SelectCategory(slug) )
                  => UNCHANGED <<agents, loading, error, reqs>> ) ]_vars

C11_Witness ==
    /\ lastEvent.kind = "noop"
    /\ chain = "polygon"
    /\ Len(reqs) = 2
    /\ reqs[2].pc = "inflight"
    /\ loading

\* C12: each activation issues exactly one network-stats request, and on
\* the overview exactly one payment-stats request; nothing that happens
\* afterwards issues another.
C12_OneStatsRequest ==
    /\ statsIssued = (IF mounted THEN 1 ELSE 0)
    /\ homeIssued.stats = (IF homeMounted THEN 1 ELSE 0)
    /\ homeIssued.payments = (IF homeMounted THEN 1 ELSE 0)

C12_Witness ==
    /\ AllDone
    /\ Len(reqs) = 2
    /\ chain = "polygon"
    /\ statsReq.pc = "done"
    /\ statsIssued = 1

\* C13: a stats or payment-stats request that failed leaves its state null,
\* one that succeeded leaves it the received body; no such request is
\* issued twice, and no step of the stats request changes error.
C13_StatsDegradeSilently ==
    /\ [] ( LET Degrades(req, value) ==
                    /\ req.outcome \in {"nonok", "reject", "parsefail"}
                         => value = Null
                    /\ req.outcome = "ok"
                         => (value # Null /\ value = req.body)
            IN  /\ Degrades(statsReq, stats)
                /\ Degrades(homeReq.stats, homeStats)
                /\ Degrades(homeReq.payments, payments)
                /\ statsIssued <= 1
                /\ homeIssued.stats <= 1 /\ homeIssued.payments <= 1 )
    /\ [][ (mounted /\ statsReq' # statsReq)
            => (error' = error /\ Truthy(error') = Truthy(error)) ]_vars

C13_Witness ==
    /\ mounted
    /\ statsReq.outcome = "reject"
    /\ stats = Null
    /\ lastEvent.kind = "ok"
    /\ ~ErrorBanner

\* C14: on the overview, while NetworkStats is null the three cards fed by
\* it show the placeholder, and while PaymentStats is null the payments card
\* shows the placeholder.
C14_NoDataPlaceholder ==
    homeMounted
    => LET cards == StatCards(homeStats, payments)
       IN  /\ homeStats = Null
                => (cards[1] = Dash /\ cards[2] = Dash /\ cards[3] = Dash)
           /\ payments = Null => cards[4] = Dash

\* C15: on activation both requests are issued; a step of the stats request
\* leaves the listing, loading, error and the listing requests unchanged,
\* and a step of a listing request or a filter change leaves the stats and
\* the stats request unchanged.
C15_FetchersIndependent ==
    /\ [] (mounted => (statsReq.pc # "none" /\ Len(reqs) >= 1))
    /\ [][ mounted
           => ( /\ statsReq' # statsReq
                    => UNCHANGED <<agents, loading, error, reqs,
                                   category, chain>>
                /\ (reqs' # reqs \/ category' # category \/ chain' # chain)
                    => UNCHANGED <<stats, statsReq>> ) ]_vars

C15_Witness ==
    /\ AllDone
    /\ Len(reqs) >= 2
    /\ ~loading
    /\ statsReq.pc = "inflight"
    /\ agents = Arr(<<a2, a1>>)

\* C16 as stated: with total_agents = 0 every computed percentage is 0 (and
\* is a number), and with total_agents > 0 the percentage computed for each
\* count of the tier, chain and protocol maps is exactly
\* 100 * count / total_agents.
C16_PctExact ==
    (out # <<>> /\ dstats # Null)
    => LET s == dstats[1]
           o == out[1]
           t == s.total_agents
           Exact(c, pct) ==
               IF t = 0 THEN IsZero(pct)
               ELSE pct[2] # 0 /\ pct[1] * t = 100 * c * pct[2]
           TiersExact(entries) ==
               \A i \in 1..Len(s.tier_distribution) :
                  \E j \in 1..Len(entries) :
                     /\ entries[j].tier = s.tier_distribution[i][1]
                     /\ Exact(s.tier_distribution[i][2], entries[j].pct)
           CardsExact(m, cards) ==
               \A i \in 1..Len(m), j \in 1..Len(cards) :
                  cards[j].key = m[i][1] => Exact(m[i][2], cards[j].pct)
       IN  /\ TiersExact(o.lbEntries)
           /\ TiersExact(o.homeEntries)
           /\ CardsExact(s.protocol_counts, o.homeProtocol)
           /\ CardsExact(s.chain_distribution, o.homeChain)

\* C16 as amended: with total_agents = 0 every computed percentage is 0 (and
\* is a number); with total_agents > 0 the tier percentage is exactly
\* 100 * count / total_agents, and the protocol and chain percentage is that
\* value rounded to one decimal place (a tie rounds up).
C16_PctRounded ==
    (out # <<>> /\ dstats # Null)
    => LET s == dstats[1]
           o == out[1]
           t == s.total_agents
           Exact(c, pct) ==
               IF t = 0 THEN IsZero(pct)
               ELSE pct[2] # 0 /\ pct[1] * t = 100 * c * pct[2]
           Rounded(c, pct) ==
               IF t = 0 THEN IsZero(pct)
               ELSE /\ pct[2] = 10
                    /\ 2 * (pct[1] * t - 1000 * c) <= t
                    /\ 2 * (1000 * c - pct[1] * t) < t
           TiersExact(entries) ==
               \A i \in 1..Len(s.tier_distribution) :
                  \E j \in 1..Len(entries) :
                     /\ entries[j].tier = s.tier_distribution[i][1]
                     /\ Exact(s.tier_distribution[i][2], entries[j].pct)
           CardsRounded(m, cards) ==
               \A i \in 1..Len(m), j \in 1..Len(cards) :
                  cards[j].key = m[i][1] => Rounded(m[i][2], cards[j].pct)
       IN  /\ TiersExact(o.lbEntries)
           /\ TiersExact(o.homeEntries)
           /\ CardsRounded(s.protocol_counts, o.homeProtocol)
           /\ CardsRounded(s.chain_distribution, o.homeChain)

C16_Witness ==
    /\ out # <<>>
    /\ dstats # Null
    /\ dstats[1].total_agents = 0
    /\ dstats[1].tier_distribution = <<<<"gold", 2>>, <<"silver", 3>>>>
    /\ dstats[1].protocol_counts = <<<<"a2a", 0>>, <<"x402", 3>>>>
    /\ out[1].lbBar = <<>>
    /\ out[1].homeProtocol[2].pct = <<0, 1>>

\* C17: no rendered width (tier segments of both views, protocol bars,
\* chain bars) exceeds 100 percent.
C17_WidthsClamped ==
    out # <<>>
    => LET o == out[1]
           Clamped(q) ==
               \A i \in 1..Len(q) :
                  q[i].width[2] # 0 /\ q[i].width[1] <= 100 * q[i].width[2]
       IN  /\ Clamped(o.lbBar)
           /\ Clamped(o.homeBar)
           /\ Clamped(o.homeProtocol)
           /\ Clamped(o.homeChain)

\* C18: whatever the key order of tier_distribution, the tier segments and
\* the legend entries of both views appear in the order diamond, platinum,
\* gold, silver, bronze, unranked.
C18_TierOrder ==
    out # <<>>
    => LET o == out[1]
           Canon == <<"diamond", "platinum", "gold", "silver", "bronze",
                      "unranked">>
           Pos(t) == CHOOSE i \in 1..Len(Canon) : Canon[i] = t
           Ordered(q) ==
               /\ \A i \in 1..Len(q) : \E k \in 1..Len(Canon) : Canon[k] = q[i].tier
               /\ \A i, j \in 1..Len(q) :
                     i < j => Pos(q[i].tier) < Pos(q[j].tier)
       IN  /\ Ordered(o.lbBar)
           /\ Ordered(o.lbLegend)
           /\ Ordered(o.homeBar)
           /\ Ordered(o.homeLegend)

C18_Witness ==
    /\ out # <<>>
    /\ dstats # Null
    /\ dstats[1].total_agents = 5
    /\ dstats[1].tier_distribution = <<<<"unranked", 1>>, <<"diamond", 2>>>>
    /\ Len(out[1].homeBar) = 2
    /\ out[1].homeBar[1].tier = "diamond"
    /\ out[1].lbLegend[2].tier = "unranked"

\* C19: no rendered legend entry, count badge or coverage card belongs to a
\* tier, chain, category or protocol whose count is 0 or absent.
C19_ZeroSuppressed ==
    out # <<>>
    => LET o == out[1]
           NonZero(q) == \A i \in 1..Len(q) : q[i].count > 0
       IN  /\ NonZero(o.lbLegend)
           /\ NonZero(o.homeLegend)
           /\ NonZero(o.lbChainBadges)
           /\ NonZero(o.lbCategoryBadges)
           /\ NonZero(o.homeProtocol)
           /\ NonZero(o.homeChain)

\* C20: with total_agents > 0, the tier bar of each view has exactly one
\* segment for each tier whose count is > 0, of width
\* 100 * count / total_agents percent, and no segment for any other tier.
C20_TierSegments ==
    (out # <<>> /\ dstats # Null /\ dstats[1].total_agents > 0)
    => LET s == dstats[1]
           m == s.tier_distribution
           Cnt(t) == IF \E i \in 1..Len(m) : m[i][1] = t
                     THEN m[CHOOSE i \in 1..Len(m) : m[i][1] = t][2]
                     ELSE 0
           Right(bar) ==
               /\ \A i \in 1..Len(bar) : bar[i].tier \in Tiers
               /\ \A t \in Tiers :
                     LET at == { i \in 1..Len(bar) : bar[i].tier = t }
                     IN  IF Cnt(t) > 0
                         THEN /\ Cardinality(at) = 1
                              /\ \A i \in at :
                                    /\ bar[i].width[2] # 0
                                    /\ bar[i].width[1] * s.total_agents
                                         = 100 * Cnt(t) * bar[i].width[2]
                         ELSE at = {}
       IN  Right(out[1].lbBar) /\ Right(out[1].homeBar)

C20_Witness ==
    /\ out # <<>>
    /\ dstats # Null
    /\ dstats[1].total_agents = 5
    /\ dstats[1].tier_distribution = <<<<"silver", 3>>, <<"gold", 2>>>>
    /\ Len(out[1].lbBar) = 2
    /\ out[1].lbBar[1].tier = "gold"
    /\ out[1].lbBar[1].width[1] * 1 = 40 * out[1].lbBar[1].width[2]
    /\ out[1].lbBar[2].tier = "silver"
    /\ out[1].lbBar[2].width[1] * 1 = 60 * out[1].lbBar[2].width[2]

----------------------------------------------------------------------------
\* C21: the bar colour of a row is a function of its score alone: score >= 80
\* gives the top bucket, 60 <= score < 80 the second, 40 <= score < 60 the
\* third and score < 40 the lowest; rows with equal scores get equal bars;
\* the bar width is min(100, score).
C21_ScoreBuckets ==
    scoreBars # <<>>
    => LET bars == scoreBars[1]
           Bucket(b) == CASE b.color = "bg-success" -> 1
                          [] b.color = "bg-primary" -> 2
                          [] b.color = "bg-warning" -> 3
                          [] b.color = "bg-danger"  -> 4
                          [] OTHER -> 0
       IN  /\ Len(bars) = Len(scoreRows)
           /\ \A i \in 1..Len(scoreRows) :
                 LET sc == scoreRows[i].composite_score
                 IN  /\ (sc >= 80) <=> (Bucket(bars[i]) = 1)
                     /\ (60 <= sc /\ sc < 80) <=> (Bucket(bars[i]) = 2)
                     /\ (40 <= sc /\ sc < 60) <=> (Bucket(bars[i]) = 3)
                     /\ (sc < 40) <=> (Bucket(bars[i]) = 4)
                     /\ bars[i].width <= 100
                     /\ bars[i].width <= sc
                     /\ bars[i].width \in {100, sc}
           /\ \A i, j \in 1..Len(scoreRows) :
                 scoreRows[i].composite_score = scoreRows[j].composite_score
                 => bars[i] = bars[j]

\* two rows on the two sides of a threshold, one of them above 100
C21_Witness ==
    /\ scoreBars # <<>>
    /\ scoreRows[1].composite_score = 79
    /\ scoreRows[2].composite_score = 101
    /\ scoreBars[1][1] = [color |-> "bg-primary", width |-> 79]
    /\ scoreBars[1][2] = [color |-> "bg-success", width |-> 100]

----------------------------------------------------------------------------
\* C22: no promise chain of either view ends in an unhandled rejection: a
\* rejected fetch, a response that is not ok and a body that is not JSON
\* all end the chain of the stats, payment-stats and listing request in a
\* fulfilled promise, and the request is settled.
C22_ErrorsCaught ==
    /\ unhandled = 0
    /\ \A p \in {"fulfilled", "rejected"} :
          /\ Unhandled(ListingChain(p)) = 0
          /\ Unhandled(StatsChain(p)) = 0

\* the listing fetch rejected and the stats body failed to parse
C22_Witness ==
    /\ mounted
    /\ statsReq.outcome = "parsefail"
    /\ Len(reqs) = 1
    /\ reqs[1].pc = "done"
    /\ lastEvent.kind = "reject"
    /\ error = FailedMsg
    /\ unhandled = 0

----------------------------------------------------------------------------
\* C23: a step issues a listing request iff it is the activation or a filter
\* interaction that changes the selection, and then it issues exactly one;
\* no response step, whatever its outcome, issues a request.  So the number
\* of requests is one plus the number of selection-changing interactions.
C23_NoRetry ==
    [][ /\ Len(reqs') \in {Len(reqs), Len(reqs) + 1}
        /\ (Len(reqs') = Len(reqs) + 1)
             <=> \/ ~mounted /\ mounted'
                 \/ mounted /\ (category' # category \/ chain' # chain)
        /\ (\E i \in 1..Len(reqs) : reqs'[i].pc # reqs[i].pc)
             => Len(reqs') = Len(reqs) ]_vars

\* a network failure and then a 500 response, and still only the two
\* requests of the activation and of the one selection change
C23_Witness ==
    /\ AllDone
    /\ Len(reqs) = 2
    /\ category = "defi"
    /\ error = FailedMsg
    /\ lastEvent.kind = "nonok"
    /\ lastEvent.id = 2

----------------------------------------------------------------------------
----------------------------------------------------------------------------
\* C25: when every issued listing request settles (and the user stops
\* changing filters, which the request bound enforces), loading is
\* eventually false and stays false; every step that settles a listing
\* request, whatever the outcome, leaves loading false.
C25_LoadingClears ==
    /\ mounted ~> [](~loading)
    /\ [][ (\E i \in 1..Len(reqs) : reqs[i].pc # "done" /\ reqs'[i].pc = "done")
           => ~loading' ]_vars

\* both requests have settled, the last one by a body that is not JSON
C25_Witness ==
    /\ AllDone
    /\ Len(reqs) = 2
    /\ lastEvent.kind = "parsefail"
    /\ lastEvent.id = 2
    /\ ~loading

----------------------------------------------------------------------------
\* C26: in every reachable state the listing state is an array: the empty
\* one, or a body the server returned as an array; a body of another shape
\* is never stored.
C26_ListingIsArray ==
    /\ agents.tag = "array"
    /\ \/ agents.items = <<>>
       \/ agents \in Bodies
    /\ (lastEvent.kind = "ok" /\ lastEvent.data.tag # "array")
         => agents = lastEvent.before

\* an object body arrived for the second request while the listing held the
\* rows of the first: the listing is still that array
C26_Witness ==
    /\ Len(reqs) = 2
    /\ lastEvent.kind = "ok"
    /\ lastEvent.id = 2
    /\ lastEvent.data = Obj
    /\ agents = Arr(<<a2, a1>>)

====
